---- MODULE Spec2Model ----
(***************************************************************************)
(* The Book catalogue: the Book model (src/Book/models.py), the storage     *)
(* operations and requests its test suite drives (src/Book/tests.py), and   *)
(* the BookForm / view layer the tests import.                              *)
(*                                                                          *)
(* Text is a sequence of one-character strings, so that lengths, parsing    *)
(* and formatting are computed and not assumed.  A date is <<y, m, d>>.      *)
(***************************************************************************)
EXTENDS Integers, Sequences, FiniteSets, TLC

VARIABLES
    books,      \* the Book table: primary key -> row
    nextPk,     \* the table's auto-increment sequence
    assigned,   \* history: every primary key the sequence has handed out
    formSaved,  \* history: keys of rows whose latest write was BookForm.save()
    form,       \* the BookForm a test constructs, validates and saves
    result      \* what the latest operation returned, raised or responded

vars == <<books, nextPk, assigned, formSaved, form, result>>

\* Most primary keys the sequence hands out in a behaviour.
MaxPk == 2

\* ------------------------------------------------------------------ text

Rep(c, n) == [i \in 1..n |-> c]

DigitChars == <<"0", "1", "2", "3", "4", "5", "6", "7", "8", "9">>

IsDigit(c) == \E i \in 1..10 : DigitChars[i] = c

DigitVal(c) == (CHOOSE i \in 1..10 : DigitChars[i] = c) - 1

AllDigits(s) == Len(s) > 0 /\ \A i \in 1..Len(s) : IsDigit(s[i])

RECURSIVE DigitsToNat(_)
DigitsToNat(s) ==
    IF s = <<>> THEN 0
    ELSE 10 * DigitsToNat(SubSeq(s, 1, Len(s) - 1)) + DigitVal(s[Len(s)])

RECURSIVE NatToDigits(_)
NatToDigits(n) ==
    IF n < 10 THEN <<DigitChars[n + 1]>>
    ELSE NatToDigits(n \div 10) \o <<DigitChars[(n % 10) + 1]>>

\* str(n) of a Python int, as the test client encodes a posted value.
Str(n) == IF n < 0 THEN <<"-">> \o NatToDigits(0 - n) ELSE NatToDigits(n)

RECURSIVE ZeroPad(_, _)
ZeroPad(s, w) == IF Len(s) >= w THEN s ELSE ZeroPad(<<"0">> \o s, w)

\* str(d) of a Python date: YYYY-MM-DD.
IsoFormat(d) ==
    ZeroPad(NatToDigits(d[1]), 4) \o <<"-">> \o ZeroPad(NatToDigits(d[2]), 2)
        \o <<"-">> \o ZeroPad(NatToDigits(d[3]), 2)

\* ------------------------------------------------------- field parsing

\* The text of an integer: an optional sign, then digits.
IsIntText(s) ==
    /\ Len(s) > 0
    /\ IF s[1] \in {"-", "+"} THEN AllDigits(Tail(s)) ELSE AllDigits(s)

ParseInt(s) ==
    IF s[1] = "-" THEN 0 - DigitsToNat(Tail(s))
    ELSE IF s[1] = "+" THEN DigitsToNat(Tail(s))
    ELSE DigitsToNat(s)

IsLeap(y) == (y % 4 = 0 /\ y % 100 # 0) \/ y % 400 = 0

DaysInMonth(y, m) ==
    IF m = 2 THEN (IF IsLeap(y) THEN 29 ELSE 28)
    ELSE IF m \in {4, 6, 9, 11} THEN 30 ELSE 31

IsCalendarDate(d) ==
    /\ d[1] >= 1
    /\ d[2] \in 1..12
    /\ d[3] >= 1 /\ d[3] <= DaysInMonth(d[1], d[2])

IsDateText(s) ==
    /\ Len(s) = 10
    /\ s[5] = "-" /\ s[8] = "-"
    /\ AllDigits(SubSeq(s, 1, 4)) /\ AllDigits(SubSeq(s, 6, 7))
    /\ AllDigits(SubSeq(s, 9, 10))

\* A mutant: the text is read as YYYY-DD-MM.
ParseDate_day_first(s) ==
    <<DigitsToNat(SubSeq(s, 1, 4)), DigitsToNat(SubSeq(s, 9, 10)),
      DigitsToNat(SubSeq(s, 6, 7))>>

ParseDate(s) ==
    <<DigitsToNat(SubSeq(s, 1, 4)), DigitsToNat(SubSeq(s, 6, 7)),
      DigitsToNat(SubSeq(s, 9, 10))>>

\* ----------------------------------------------------------- the model

FieldNames == {"title", "author", "publication_date", "pages"}

title_max_length == 20

author_max_length == 20

Required == "This field is required."

TooLong == "Ensure this value has at most 20 characters."

BadDate == "Enter a valid date."

BadInt == "Enter a whole number."

BelowMin == "Ensure this value is greater than or equal to 0."

\* A posted value that is absent or the empty text.
IsEmptyValue(d, f) == f \notin DOMAIN d \/ d[f] = <<>>

\* A mutant: the field is declared blank=True, so the empty text is accepted.
title_errors_blank_allowed(d) ==
    IF "title" \notin DOMAIN d THEN <<Required>>
    ELSE IF Len(d["title"]) > title_max_length THEN <<TooLong>>
    ELSE <<>>

\* A mutant: the length limit is taken to exclude the limit itself.
title_errors_off_by_one(d) ==
    IF IsEmptyValue(d, "title") THEN <<Required>>
    ELSE IF Len(d["title"]) >= title_max_length THEN <<TooLong>>
    ELSE <<>>

\* title = models.CharField(max_length=20): required, at most 20 characters.
title_errors(d) ==
    IF IsEmptyValue(d, "title") THEN <<Required>>
    ELSE IF Len(d["title"]) > title_max_length THEN <<TooLong>>
    ELSE <<>>

\* author = models.CharField(max_length=20)
author_errors(d) ==
    IF IsEmptyValue(d, "author") THEN <<Required>>
    ELSE IF Len(d["author"]) > author_max_length THEN <<TooLong>>
    ELSE <<>>

\* A mutant: the text's shape is checked, the calendar is not.
publication_date_errors_no_calendar(d) ==
    IF IsEmptyValue(d, "publication_date") THEN <<Required>>
    ELSE IF ~IsDateText(d["publication_date"]) THEN <<BadDate>>
    ELSE <<>>

\* publication_date = models.DateField(): required, a calendar date.
publication_date_errors(d) ==
    IF IsEmptyValue(d, "publication_date") THEN <<Required>>
    ELSE IF ~IsDateText(d["publication_date"]) THEN <<BadDate>>
    ELSE IF ~IsCalendarDate(ParseDate(d["publication_date"])) THEN <<BadDate>>
    ELSE <<>>

\* A mutant: "positive" is taken strictly, and zero is refused.
pages_errors_strict(d) ==
    IF IsEmptyValue(d, "pages") THEN <<Required>>
    ELSE IF ~IsIntText(d["pages"]) THEN <<BadInt>>
    ELSE IF ParseInt(d["pages"]) <= 0 THEN <<BelowMin>>
    ELSE <<>>

\* pages = models.PositiveIntegerField(): required, an integer, at least 0.
pages_errors(d) ==
    IF IsEmptyValue(d, "pages") THEN <<Required>>
    ELSE IF ~IsIntText(d["pages"]) THEN <<BadInt>>
    ELSE IF ParseInt(d["pages"]) < 0 THEN <<BelowMin>>
    ELSE <<>>

\* The column check PositiveIntegerField puts on the table.
pages_db_check(p) == p >= 0

\* Book.__str__
BookStr(book) == book.title

\* --------------------------------------------------------- the BookForm

NoErrors == [f \in FieldNames |-> <<>>]

\* BookForm.errors after full_clean(): every field is cleaned on its own.
FormErrors(d) ==
    [f \in FieldNames |->
        CASE f = "title" -> title_errors(d)
          [] f = "author" -> author_errors(d)
          [] f = "publication_date" -> publication_date_errors(d)
          [] OTHER -> pages_errors(d)]

FormIsValid(d) == \A f \in FieldNames : FormErrors(d)[f] = <<>>

\* BookForm.cleaned_data of a valid form.
CleanedData(d) ==
    [title |-> d["title"], author |-> d["author"],
     publication_date |-> ParseDate(d["publication_date"]),
     pages |-> ParseInt(d["pages"])]

NoData == [f \in {} |-> <<>>]

NoForm == [state |-> "none", data |-> NoData, instance |-> 0, errors |-> NoErrors]

\* ------------------------------------------------------ the storage layer

Max(S) == CHOOSE x \in S : \A y \in S : y <= x

\* A mutant: the next key is one more than the largest key in the table.
NewPk_max_plus_one == IF DOMAIN books = {} THEN 1 ELSE Max(DOMAIN books) + 1

\* The implicit id = AutoField(primary_key=True): the sequence's next value.
NewPk == nextPk

\* Book.objects.get(pk=pk): the row, or DoesNotExist.
Get(table, pk) ==
    IF pk \in DOMAIN table THEN [found |-> TRUE, pk |-> pk, row |-> table[pk]]
    ELSE [found |-> FALSE, pk |-> pk,
          row |-> [title |-> <<>>, author |-> <<>>,
                   publication_date |-> <<0, 0, 0>>, pages |-> 0]]

\* Book.objects.all(), as (pk, row) pairs.
ObjectList(table) == {Get(table, k) : k \in DOMAIN table}

\* INSERT of a row under a fresh key.
Inserted(row) == (NewPk :> row) @@ books

\* A mutant: only the columns the update test reads back are written.
Updated_title_author_only(pk, row) ==
    [books EXCEPT ![pk].title = row.title, ![pk].author = row.author]

\* UPDATE of the row with key pk: all four columns are written.
Updated(pk, row) == [books EXCEPT ![pk] = row]

\* A mutant: the delete is issued on the whole queryset.
Deleted_all(pk) == [k \in {} |-> books[k]]

\* DELETE of the row with key pk.
Deleted(pk) == [k \in DOMAIN books \ {pk} |-> books[k]]

\* What an operation hands back: the identifier it concerned, an exception it
\* raised, and for a request the posted data and the response (status,
\* redirect target, the form's errors, the objects shown).
Result(op, status, to, pk, exc, body) ==
    [op |-> op, pk |-> pk, exc |-> exc, data |-> NoData, status |-> status,
     to |-> to, errors |-> NoErrors, body |-> body]

\* The response to a POST of data d whose form has the errors of d.
PostResult(op, status, to, pk, d) ==
    [Result(op, status, to, pk, "", {}) EXCEPT !.data = d, !.errors = FormErrors(d)]

\* ------------------------------------------------------------- inputs

Today == <<2026, 11, 3>>

LeapDay == <<2024, 2, 29>>

TestBook == <<"T", "e", "s", "t", " ", "B", "o", "o", "k">>

TestAuthor == <<"T", "e", "s", "t", " ", "A", "u", "t", "h", "o", "r">>

NewBook == <<"N", "e", "w", " ", "B", "o", "o", "k">>

NewAuthor == <<"N", "e", "w", " ", "A", "u", "t", "h", "o", "r">>

Book(t, a, d, p) == [title |-> t, author |-> a, publication_date |-> d, pages |-> p]

\* The test client's encoding of posted Python values: str() of each.
Encode(v) ==
    [title |-> v.title, author |-> v.author,
     publication_date |-> IsoFormat(v.publication_date), pages |-> Str(v.pages)]

\* Keyword arguments the tests hand to Book.objects.create, and ones like them.
CreateArgs ==
    { Book(TestBook, TestAuthor, Today, 123),
      Book(<<>>, TestAuthor, Today, 123),
      Book(Rep("T", 21), TestAuthor, Today, 123),
      Book(TestBook, TestAuthor, Today, -10) }

\* Python values the tests post, and ones like them.
PostValues ==
    { Book(NewBook, NewAuthor, Today, 100),
      Book(Rep("T", 20), Rep("A", 20), LeapDay, 0),
      Book(<<>>, NewAuthor, Today, 200),
      Book(NewBook, NewAuthor, Today, -10),
      Book(Rep("T", 21), Rep("A", 21), Today, 100) }

\* Posted mappings: the encoded values, the empty mapping, and a date text
\* that names no calendar day.
PostData ==
    {Encode(v) : v \in PostValues}
        \cup { NoData,
               [Encode(Book(NewBook, NewAuthor, Today, 100))
                   EXCEPT !["publication_date"] = IsoFormat(<<2023, 2, 29>>)] }

\* Identifiers a request may name: every key that can exist, and one that cannot.
RequestPks == 1..(MaxPk + 1)

\* ---------------------------------------------------------------- Init

Init ==
    /\ books = [k \in {} |-> Book(<<>>, <<>>, Today, 0)]
    /\ nextPk = 1
    /\ assigned = {}
    /\ formSaved = {}
    /\ form = NoForm
    /\ result = Result("init", 0, "", 0, "", {})

\* ------------------------------------------- operations the tests call

\* Book.objects.create(**v): an INSERT with no validation of the model's
\* fields; the table's own constraints are all that can refuse the row.
ObjectsCreate(v) ==
    /\ NewPk <= MaxPk
    /\ \/ /\ pages_db_check(v.pages)
          /\ books' = Inserted(v)
          /\ nextPk' = NewPk + 1
          /\ assigned' = assigned \cup {NewPk}
          /\ formSaved' = formSaved \ {NewPk}
          /\ result' = Result("objects_create", 0, "", NewPk, "", {})
       \/ /\ ~pages_db_check(v.pages)
          /\ result' = Result("objects_create", 0, "", 0, "IntegrityError", {})
          /\ UNCHANGED <<books, nextPk, assigned, formSaved>>
       \/ /\ \/ Len(v.title) > title_max_length
             \/ Len(v.author) > author_max_length
          /\ result' = Result("objects_create", 0, "", 0, "DataError", {})
          /\ UNCHANGED <<books, nextPk, assigned, formSaved>>
    /\ UNCHANGED form

\* book.delete() on an instance read from the table.
InstanceDelete(pk) ==
    /\ pk \in DOMAIN books
    /\ books' = Deleted(pk)
    /\ formSaved' = formSaved \ {pk}
    /\ result' = Result("instance_delete", 0, "", pk, "", {})
    /\ UNCHANGED <<nextPk, assigned, form>>

\* form = BookForm(data=d)
BookFormInit(d) ==
    /\ form' = [state |-> "unvalidated", data |-> d, instance |-> 0,
                errors |-> NoErrors]
    /\ result' = Result("BookForm", 0, "", 0, "", {})
    /\ UNCHANGED <<books, nextPk, assigned, formSaved>>

\* form.is_valid()
IsValid ==
    /\ form.state \in {"unvalidated", "valid", "invalid"}
    /\ form' = [form EXCEPT
                  !.state = IF FormIsValid(form.data) THEN "valid" ELSE "invalid",
                  !.errors = FormErrors(form.data)]
    /\ result' = Result("is_valid", 0, "", 0, "", {})
    /\ UNCHANGED <<books, nextPk, assigned, formSaved>>

\* book = form.save() of a valid form bound to no instance: an INSERT.
Save ==
    /\ form.state = "valid"
    /\ form.instance = 0
    /\ NewPk <= MaxPk
    /\ books' = Inserted(CleanedData(form.data))
    /\ nextPk' = NewPk + 1
    /\ assigned' = assigned \cup {NewPk}
    /\ formSaved' = formSaved \cup {NewPk}
    /\ form' = [form EXCEPT !.state = "saved", !.instance = NewPk]
    /\ result' = Result("save", 0, "", NewPk, "", {})

\* ------------------------------------------------------------ the views

Http404(op, pk) == Result(op, 404, "", pk, "Http404", {})

\* GET book_list
BookListView ==
    /\ result' = Result("list", 200, "", 0, "", ObjectList(books))
    /\ UNCHANGED <<books, nextPk, assigned, formSaved, form>>

\* GET book_detail
BookDetailView(pk) ==
    /\ result' = IF Get(books, pk).found
                 THEN Result("detail", 200, "", pk, "", {Get(books, pk)})
                 ELSE Http404("detail", pk)
    /\ UNCHANGED <<books, nextPk, assigned, formSaved, form>>

\* GET book_create: an empty, unbound form.
BookCreateViewGet ==
    /\ result' = Result("create_get", 200, "", 0, "", {})
    /\ UNCHANGED <<books, nextPk, assigned, formSaved, form>>

\* POST book_create: validate, then save and redirect, or show the errors.
BookCreateViewPost(d) ==
    /\ \/ /\ FormIsValid(d)
          /\ NewPk <= MaxPk
          /\ books' = Inserted(CleanedData(d))
          /\ nextPk' = NewPk + 1
          /\ assigned' = assigned \cup {NewPk}
          /\ formSaved' = formSaved \cup {NewPk}
          /\ result' = PostResult("create_post", 302, "book_list", NewPk, d)
       \/ /\ ~FormIsValid(d)
          /\ result' = PostResult("create_post", 200, "", 0, d)
          /\ UNCHANGED <<books, nextPk, assigned, formSaved>>
    /\ UNCHANGED form

\* GET book_update: the form of the record, or 404.
BookUpdateViewGet(pk) ==
    /\ result' = IF Get(books, pk).found
                 THEN Result("update_get", 200, "", pk, "", {Get(books, pk)})
                 ELSE Http404("update_get", pk)
    /\ UNCHANGED <<books, nextPk, assigned, formSaved, form>>

\* POST book_update: the form bound to record pk is validated and saved.
BookUpdateViewPost(pk, d) ==
    /\ \/ /\ Get(books, pk).found
          /\ FormIsValid(d)
          /\ books' = Updated(pk, CleanedData(d))
          /\ formSaved' = formSaved \cup {pk}
          /\ result' = PostResult("update_post", 302, "book_detail", pk, d)
       \/ /\ Get(books, pk).found
          /\ ~FormIsValid(d)
          /\ result' = PostResult("update_post", 200, "", pk, d)
          /\ UNCHANGED <<books, formSaved>>
       \/ /\ ~Get(books, pk).found
          /\ result' = Http404("update_post", pk)
          /\ UNCHANGED <<books, formSaved>>
    /\ UNCHANGED <<nextPk, assigned, form>>

\* GET book_delete: the confirmation page, or 404.
BookDeleteViewGet(pk) ==
    /\ result' = IF Get(books, pk).found
                 THEN Result("delete_get", 200, "", pk, "", {Get(books, pk)})
                 ELSE Http404("delete_get", pk)
    /\ UNCHANGED <<books, nextPk, assigned, formSaved, form>>

\* POST book_delete: the record is deleted, or 404.
BookDeleteViewPost(pk) ==
    \/ /\ Get(books, pk).found
       /\ books' = Deleted(pk)
       /\ formSaved' = formSaved \ {pk}
       /\ result' = Result("delete_post", 302, "book_list", pk, "", {})
       /\ UNCHANGED <<nextPk, assigned, form>>
    \/ /\ ~Get(books, pk).found
       /\ result' = Http404("delete_post", pk)
       /\ UNCHANGED <<books, nextPk, assigned, formSaved, form>>

\* ------------------------------------------------------- specifications

\* Requests, and the storage calls of the tests' fixtures.
Next ==
    \/ \E v \in CreateArgs : ObjectsCreate(v)
    \/ \E pk \in RequestPks : InstanceDelete(pk)
    \/ BookListView
    \/ \E pk \in RequestPks : BookDetailView(pk)
    \/ BookCreateViewGet
    \/ \E d \in PostData : BookCreateViewPost(d)
    \/ \E pk \in RequestPks : BookUpdateViewGet(pk)
    \/ \E pk \in RequestPks, d \in PostData : BookUpdateViewPost(pk, d)
    \/ \E pk \in RequestPks : BookDeleteViewGet(pk)
    \/ \E pk \in RequestPks : BookDeleteViewPost(pk)

Spec == Init /\ [][Next]_vars

\* Every step that validates posted data: the form's own steps as the tests
\* take them, and the two posting views.
NextForm ==
    \/ \E d \in PostData : BookFormInit(d)
    \/ IsValid
    \/ Save
    \/ \E d \in PostData : BookCreateViewPost(d)
    \/ \E pk \in RequestPks, d \in PostData : BookUpdateViewPost(pk, d)

SpecForm == Init /\ [][NextForm]_vars

\* Validation alone, over every combination of per-field inputs: each field
\* absent, empty, well-formed, at and beyond its limit, or malformed.
Absent == <<FALSE, <<>>>>

Given(text) == <<TRUE, text>>

TitleOptions ==
    {Absent, Given(<<>>), Given(NewBook), Given(Rep("T", 20)), Given(Rep("T", 21))}

AuthorOptions ==
    {Absent, Given(<<>>), Given(NewAuthor), Given(Rep("A", 20)), Given(Rep("A", 21))}

DateOptions ==
    {Absent, Given(<<>>), Given(IsoFormat(Today)), Given(IsoFormat(LeapDay)),
     Given(IsoFormat(<<2023, 2, 29>>)), Given(IsoFormat(<<2024, 13, 1>>)),
     Given(<<"t", "o", "d", "a", "y">>)}

PagesOptions ==
    {Absent, Given(<<>>), Given(Str(0)), Given(Str(1)), Given(Str(100)),
     Given(Str(-1)), Given(Str(-10)), Given(<<"a", "b", "c">>)}

MkData(t, a, d, p) ==
    LET given == [title |-> t, author |-> a, publication_date |-> d, pages |-> p]
    IN  [f \in {g \in FieldNames : given[g][1]} |-> given[f][2]]

AllData ==
    {MkData(t, a, d, p) : t \in TitleOptions, a \in AuthorOptions,
                          d \in DateOptions, p \in PagesOptions}

InitValidate ==
    /\ books = [k \in {} |-> Book(<<>>, <<>>, Today, 0)]
    /\ nextPk = 1
    /\ assigned = {}
    /\ formSaved = {}
    /\ form \in {[state |-> "unvalidated", data |-> d, instance |-> 0,
                  errors |-> NoErrors] : d \in AllData}
    /\ result = Result("BookForm", 0, "", 0, "", {})

NextValidate == IsValid

SpecValidate == InitValidate /\ [][NextValidate]_vars

\* ============================================================= properties

\* The validation rules as the specification words them, stated on the posted
\* text without the form's parsers: a date or an integer is well-formed when
\* it is the text str() gives for some date or integer.
Has(d, f) == f \in DOMAIN d /\ d[f] # <<>>

CalendarDates ==
    {dt \in {2023, 2024, 2026} \X (1..12) \X (1..31) : IsCalendarDate(dt)}

DateTexts == {IsoFormat(dt) : dt \in CalendarDates}

NegativeTexts == {Str(n) : n \in -20..-1}

NaturalTexts == {Str(n) : n \in 0..200}

Violates(d, f) ==
    CASE f = "title" -> ~Has(d, f) \/ Len(d[f]) > 20
      [] f = "author" -> ~Has(d, f) \/ Len(d[f]) > 20
      [] f = "publication_date" -> ~Has(d, f) \/ d[f] \notin DateTexts
      [] OTHER -> ~Has(d, f) \/ d[f] \notin NaturalTexts

OthersValid(d, f) == \A g \in FieldNames \ {f} : ~Violates(d, g)

Validated == form.state \in {"valid", "invalid"}

\* C7: a form whose pages is the text of a negative integer is invalid, with
\* a non-empty error list for pages, whatever the other fields are; a form
\* whose pages is 0 and whose other fields are valid is valid.
C7_NegativePagesRejectedZeroAccepted ==
    Validated =>
        /\ (Has(form.data, "pages") /\ form.data["pages"] \in NegativeTexts)
              => form.state = "invalid" /\ form.errors["pages"] # <<>>
        /\ (Has(form.data, "pages") /\ form.data["pages"] = Str(0)
                /\ OthersValid(form.data, "pages"))
              => form.state = "valid" /\ form.errors["pages"] = <<>>

C7_Witness ==
    /\ form.state = "invalid"
    /\ Has(form.data, "pages") /\ form.data["pages"] = Str(-10)
    /\ ~Has(form.data, "title")
    /\ form.errors["pages"] # <<>>

\* C8: a title longer than 20 characters makes the form invalid with a
\* non-empty title error list, and likewise an author and the author list;
\* a title or author of exactly 20 characters is accepted when the other
\* fields are valid.
C8_MaxLengthEnforcedAtTwenty ==
    Validated =>
        \A f \in {"title", "author"} :
            /\ (Has(form.data, f) /\ Len(form.data[f]) > 20)
                  => form.state = "invalid" /\ form.errors[f] # <<>>
            /\ (Has(form.data, f) /\ Len(form.data[f]) = 20
                    /\ OthersValid(form.data, f))
                  => form.state = "valid" /\ form.errors[f] = <<>>

C8_Witness ==
    /\ form.state = "invalid"
    /\ Has(form.data, "title") /\ Len(form.data["title"]) = 21
    /\ OthersValid(form.data, "title")
    /\ form.errors["title"] # <<>>

\* C9: after validation the fields with a non-empty error list are exactly
\* the fields that break their own rule; the empty mapping is invalid with
\* an error for each of the four fields and the title list exactly
\* ["This field is required."]; a title and an author both over the limit
\* are both reported.
C9_ErrorsExactlyTheViolatingFields ==
    Validated =>
        /\ {f \in FieldNames : form.errors[f] # <<>>}
              = {f \in FieldNames : Violates(form.data, f)}
        /\ form.state = "invalid"
              <=> \E f \in FieldNames : Violates(form.data, f)
        /\ DOMAIN form.data = {}
              => /\ form.state = "invalid"
                 /\ \A f \in FieldNames : form.errors[f] # <<>>
                 /\ form.errors["title"] = <<"This field is required.">>
        /\ (Has(form.data, "title") /\ Len(form.data["title"]) > 20
                /\ Has(form.data, "author") /\ Len(form.data["author"]) > 20)
              => form.errors["title"] # <<>> /\ form.errors["author"] # <<>>

C9_Witness ==
    /\ form.state = "invalid"
    /\ DOMAIN form.data = {}
    /\ form.errors["title"] = <<"This field is required.">>
    /\ \A f \in FieldNames : form.errors[f] # <<>>

\* A Python value the specification calls valid.
IsValidValue(v) ==
    /\ Len(v.title) >= 1 /\ Len(v.title) <= 20
    /\ Len(v.author) >= 1 /\ Len(v.author) <= 20
    /\ IsCalendarDate(v.publication_date)
    /\ v.pages >= 0

TextWithinBound(row) ==
    /\ Len(row.title) >= 1 /\ Len(row.title) <= 20
    /\ Len(row.author) >= 1 /\ Len(row.author) <= 20

\* C1 as stated: every persisted Book, however it was created, has a
\* non-empty title and author of at most 20 characters, a calendar date and
\* a page count of at least 0.
C1_EveryPersistedBookValid ==
    \A pk \in DOMAIN books : IsValidValue(books[pk])

\* C1 as amended: every persisted Book has a calendar date and a page count
\* of at least 0, and every Book whose latest write was the save of a
\* validated form has a non-empty title and author of at most 20 characters.
C1_PersistedBookValidWhenFormSaved ==
    \A pk \in DOMAIN books :
        /\ IsCalendarDate(books[pk].publication_date)
        /\ books[pk].pages >= 0
        /\ pk \in formSaved => TextWithinBound(books[pk])

C1_Witness ==
    \E i \in DOMAIN books, j \in DOMAIN books :
        /\ i \in formSaved /\ TextWithinBound(books[i])
        /\ j \notin formSaved /\ books[j].title = <<>>

\* A step that created a record, and the key it reports.
Creates(r) ==
    \/ r.op = "objects_create" /\ r.exc = ""
    \/ r.op = "save"
    \/ r.op = "create_post" /\ r.status = 302

\* C6: a created record gets a key no record has and none ever had, also
\* after deletions; no other step adds a key; and every row a step keeps
\* stays under its key (an update rewrites the row of its key and of no other).
C6_IdentifiersUniqueStableNeverReused ==
    [][ /\ Creates(result')
            => /\ result'.pk \notin assigned
               /\ DOMAIN books' = DOMAIN books \cup {result'.pk}
               /\ \A j \in DOMAIN books : books'[j] = books[j]
        /\ ~Creates(result') => DOMAIN books' \subseteq DOMAIN books
        /\ \A j \in DOMAIN books \cap DOMAIN books' :
               books'[j] # books[j]
                   => result'.op = "update_post" /\ result'.pk = j
        /\ DOMAIN books' \subseteq assigned' ]_vars

C6_Witness ==
    \E i \in assigned, j \in DOMAIN books :
        /\ i \notin DOMAIN books
        /\ j > i
        /\ result.op = "create_post" /\ result.pk = j

\* C4: a valid update post for the existing record i writes the four posted
\* values to record i, under key i, adds and removes no record, and leaves
\* every other record as it was.
C4_UpdateOverwritesExactlyTheBoundRecord ==
    [][ (result'.op = "update_post" /\ result'.status = 302)
            => LET i == result'.pk
               IN  /\ i \in DOMAIN books
                   /\ DOMAIN books' = DOMAIN books
                   /\ \E v \in PostValues :
                          result'.data = Encode(v) /\ books'[i] = v
                   /\ \A j \in DOMAIN books \ {i} : books'[j] = books[j] ]_vars

C4_Witness ==
    /\ result.op = "update_post" /\ result.status = 302
    /\ Cardinality(DOMAIN books) = 2
    /\ books[result.pk] = Book(Rep("T", 20), Rep("A", 20), LeapDay, 0)
    /\ \E j \in DOMAIN books : books[j].title = TestBook

\* C5: a delete post for an existing key i responds with the redirect, after
\* it reading i finds nothing, and every other record is as it was; a delete
\* post for a key with no record (a second delete of i too) is a not-found
\* error and changes nothing.
C5_DeleteRemovesOnlyThatRecord ==
    [][ result'.op = "delete_post"
            => LET i == result'.pk
               IN  /\ i \in DOMAIN books
                       => /\ result'.status = 302
                          /\ ~Get(books', i).found
                          /\ DOMAIN books' = DOMAIN books \ {i}
                          /\ \A j \in DOMAIN books \ {i} : books'[j] = books[j]
                   /\ i \notin DOMAIN books
                       => /\ result'.status = 404
                          /\ result'.exc = "Http404"
                          /\ books' = books ]_vars

C5_Witness ==
    /\ result.op = "delete_post" /\ result.status = 302
    /\ result.pk \notin DOMAIN books
    /\ DOMAIN books # {}

Invalid(d) == \E f \in FieldNames : Violates(d, f)

ValidPost(d) == \E v \in PostValues : IsValidValue(v) /\ d = Encode(v)

Requests ==
    {"list", "detail", "create_get", "create_post", "update_get", "update_post",
     "delete_get", "delete_post"}

\* C10: every request ends in one response of the interface table.  A create
\* post of valid values is a 302 to the list, and the list then holds the new
\* record; a create post of invalid data is a 200 carrying the form's errors;
\* a valid update post on an existing key is a 302 to that record's detail; a
\* delete post on an existing key is a 302 to the list; a detail, update or
\* delete request for a key with no record is a 404.
C10_ResponsesFollowTheInterfaceTable ==
    [][ LET r == result'
            known == r.pk \in DOMAIN books
        IN  /\ r.op \in Requests => r.status \in {200, 302, 404}
            /\ (r.op = "create_post" /\ ValidPost(r.data))
                  => /\ r.status = 302 /\ r.to = "book_list"
                     /\ \E v \in PostValues :
                            /\ r.data = Encode(v)
                            /\ \E b \in ObjectList(books') :
                                   b.pk \notin DOMAIN books /\ b.row = v
            /\ (r.op = "create_post" /\ Invalid(r.data))
                  => /\ r.status = 200
                     /\ \E f \in FieldNames : r.errors[f] # <<>>
            /\ (r.op = "update_post" /\ known /\ ValidPost(r.data))
                  => r.status = 302 /\ r.to = "book_detail"
            /\ (r.op = "update_post" /\ known /\ Invalid(r.data))
                  => /\ r.status = 200
                     /\ \E f \in FieldNames : r.errors[f] # <<>>
            /\ (r.op = "delete_post" /\ known)
                  => r.status = 302 /\ r.to = "book_list"
            /\ (r.op \in {"detail", "update_get", "delete_get"} /\ known)
                  => r.status = 200
            /\ (r.op \in {"detail", "update_get", "update_post", "delete_get",
                          "delete_post"} /\ ~known)
                  => r.status = 404
            /\ r.op \in {"list", "create_get"} => r.status = 200
            /\ r.op = "list" => r.body = ObjectList(books) ]_vars

C10_Witness ==
    /\ result.op = "create_post" /\ result.status = 302
    /\ result.to = "book_list"
    /\ result.data = Encode(Book(NewBook, NewAuthor, Today, 100))
    /\ \E b \in ObjectList(books) : b.pk = result.pk /\ b.row.title = NewBook

\* C2: a form of valid values validates; saving it unbound adds exactly one
\* record, whose four fields are the values, and reading the record by the
\* key the save returns gives those four fields; the same holds of a create
\* post.
C2_ValidInputSavesEqualRecord ==
    [][ /\ (form'.state \in {"valid", "invalid"} /\ ValidPost(form'.data))
              => form'.state = "valid"
        /\ \A d \in PostData :
              (\/ result'.op = "save" /\ d = form.data
               \/ result'.op = "create_post" /\ d = result'.data
                      /\ ValidPost(d))
                  => \E v \in PostValues :
                         /\ IsValidValue(v) /\ d = Encode(v)
                         /\ result'.pk \notin DOMAIN books
                         /\ DOMAIN books' = DOMAIN books \cup {result'.pk}
                         /\ Get(books', result'.pk).found
                         /\ Get(books', result'.pk).row = v
                         /\ \A j \in DOMAIN books : books'[j] = books[j] ]_vars

C2_Witness ==
    /\ result.op = "save"
    /\ form.state = "saved"
    /\ form.data = Encode(Book(NewBook, NewAuthor, Today, 100))
    /\ Get(books, result.pk).found
    /\ Get(books, result.pk).row = Book(NewBook, NewAuthor, Today, 100)
    /\ Cardinality(DOMAIN books) = 2

\* C3: validating a form, whatever its data, changes no record; a create or
\* update post whose data breaks a rule changes no record, whether or not the
\* form is bound to a record; and a step that does change the records is the
\* save of a form whose data breaks no rule.
C3_ValidationWritesNothing ==
    [][ /\ result'.op \in {"BookForm", "is_valid"}
              => books' = books /\ nextPk' = nextPk
        /\ (result'.op \in {"create_post", "update_post"} /\ Invalid(result'.data))
              => books' = books /\ nextPk' = nextPk
        /\ books' # books
              => \/ result'.op = "save" /\ form.state = "valid"
                        /\ ~Invalid(form.data)
                 \/ result'.op \in {"create_post", "update_post"}
                        /\ ~Invalid(result'.data) ]_vars

C3_Witness ==
    /\ result.op = "update_post" /\ result.status = 200
    /\ Invalid(result.data)
    /\ result.pk \in DOMAIN books
    /\ form.state = "invalid"

====
